---------------------------- MODULE Spec2Model ----------------------------
(***************************************************************************)
(* Model of the static analysis gate runtime/ast_linter.py and of its      *)
(* caller scripts/preflight_validate.py.                                   *)
(*                                                                         *)
(* Representation of Python values:                                        *)
(*   - a path or mode string is the sequence of its characters;            *)
(*   - an identifier or dotted module name is the sequence of its          *)
(*     dot-separated segments ("os.path" is <<"os", "path">>, "" is <<>>), *)
(*     so that s.split(".")[0] and f"{base}.{attr}" are computed;          *)
(*   - an optional value is None (<<>>) or Some(x) (<<x>>).                *)
(***************************************************************************)
EXTENDS Integers, Sequences, FiniteSets, TLC

None == <<>>
Some(x) == <<x>>
IsNone(o) == o = <<>>
Get(o) == o[1]

(***************************************************************************)
(* String helpers (str.startswith, str.split, str.join, `in`).             *)
(***************************************************************************)
StartsWith(s, p) ==
    /\ Len(p) <= Len(s)
    /\ \A i \in 1..Len(p) : s[i] = p[i]

Contains(s, c) == \E i \in 1..Len(s) : s[i] = c

RECURSIVE SplitFrom(_, _, _, _)
\* s.split(sep), scanning from position i with the current component cur
SplitFrom(s, sep, i, cur) ==
    IF i > Len(s) THEN <<cur>>
    ELSE IF s[i] = sep THEN <<cur>> \o SplitFrom(s, sep, i + 1, <<>>)
    ELSE SplitFrom(s, sep, i + 1, Append(cur, s[i]))

Split(s, sep) == SplitFrom(s, sep, 1, <<>>)

RECURSIVE Join(_, _)
\* sep.join(comps)
Join(comps, sep) ==
    IF Len(comps) = 0 THEN <<>>
    ELSE IF Len(comps) = 1 THEN comps[1]
    ELSE comps[1] \o <<sep>> \o Join(Tail(comps), sep)

(***************************************************************************)
(* os.path.normpath and os.path.isabs (POSIX), as called by the visitor.   *)
(***************************************************************************)
DotDot == <<".", ".">>

RECURSIVE NormComps(_, _, _)
\* the loop over comps of normpath, new_comps being the accumulator
NormComps(comps, initial_slashes, new_comps) ==
    IF Len(comps) = 0 THEN new_comps
    ELSE LET comp == Head(comps)
             rest == Tail(comps)
         IN  IF comp = <<>> \/ comp = <<".">>
             THEN NormComps(rest, initial_slashes, new_comps)
             ELSE IF \/ comp /= DotDot
                     \/ (initial_slashes = 0 /\ Len(new_comps) = 0)
                     \/ (Len(new_comps) > 0 /\ new_comps[Len(new_comps)] = DotDot)
             THEN NormComps(rest, initial_slashes, Append(new_comps, comp))
             ELSE IF Len(new_comps) > 0
             THEN NormComps(rest, initial_slashes, SubSeq(new_comps, 1, Len(new_comps) - 1))
             ELSE NormComps(rest, initial_slashes, new_comps)

Normpath(path) ==
    IF Len(path) = 0 THEN <<".">>
    ELSE LET initial_slashes ==
                 IF ~StartsWith(path, <<"/">>) THEN 0
                 ELSE IF StartsWith(path, <<"/", "/">>) /\ ~StartsWith(path, <<"/", "/", "/">>)
                 THEN 2 ELSE 1
             joined == Join(NormComps(Split(path, "/"), initial_slashes, <<>>), "/")
             out == IF initial_slashes = 2 THEN <<"/", "/">> \o joined
                    ELSE IF initial_slashes = 1 THEN <<"/">> \o joined
                    ELSE joined
         IN  IF Len(out) = 0 THEN <<".">> ELSE out

IsAbs(path) == StartsWith(path, <<"/">>)


(***************************************************************************)
(* Syntax tree nodes, as ast.parse builds them.  Every statement and       *)
(* expression node carries the lineno and col_offset the parser gave it.   *)
(***************************************************************************)
Alias(name, asname) == [name |-> name, asname |-> asname]

ImportNode(names) ==
    [kind |-> "Import", names |-> names, lineno |-> 0, col_offset |-> 0]

ImportFromNode(module, names, level) ==
    [kind |-> "ImportFrom", module |-> module, names |-> names, level |-> level,
     lineno |-> 0, col_offset |-> 0]

NameNode(id, col) == [kind |-> "Name", id |-> id, lineno |-> 0, col_offset |-> col]

AttributeNode(value, attr, col) ==
    [kind |-> "Attribute", value |-> value, attr |-> attr, lineno |-> 0, col_offset |-> col]

\* keywords holds the value expressions of the keyword arguments (mode=...)
CallNode(func, args, keywords, col) ==
    [kind |-> "Call", func |-> func, args |-> args, keywords |-> keywords,
     lineno |-> 0, col_offset |-> col]

StrValue(s) == [type |-> "str", s |-> s]
IntValue == [type |-> "int", s |-> <<>>]

ConstantNode(value, col) ==
    [kind |-> "Constant", value |-> value, lineno |-> 0, col_offset |-> col]

\* an expression statement
ExprNode(value) == [kind |-> "Expr", value |-> value, lineno |-> 0, col_offset |-> 0]

\* def f(): <body>
FunctionDefNode(body) ==
    [kind |-> "FunctionDef", body |-> body, lineno |-> 0, col_offset |-> 0]

\* f(...)[0], a subscript of a value
SubscriptNode(value, col) ==
    [kind |-> "Subscript", value |-> value, lineno |-> 0, col_offset |-> col]

ModuleNode(body) == [kind |-> "Module", body |-> body]

RECURSIVE AtLine(_, _)
RECURSIVE AtLineSeq(_, _)
\* the node as the parser places it when its statement is on line n
AtLine(node, n) ==
    CASE node.kind = "Call" ->
           [node EXCEPT !.lineno = n, !.func = AtLine(@, n),
                        !.args = AtLineSeq(@, n), !.keywords = AtLineSeq(@, n)]
      [] node.kind \in {"Attribute", "Expr", "Subscript"} ->
           [node EXCEPT !.lineno = n, !.value = AtLine(@, n)]
      [] node.kind = "FunctionDef" ->
           [node EXCEPT !.lineno = n, !.body = AtLineSeq(@, n)]
      [] OTHER -> [node EXCEPT !.lineno = n]

AtLineSeq(nodes, n) == [i \in 1..Len(nodes) |-> AtLine(nodes[i], n)]

\* the tree of a source text holding one statement per line
ParseBody(stmts) == ModuleNode([i \in 1..Len(stmts) |-> AtLine(stmts[i], i)])

(***************************************************************************)
(* Module-level tables of ast_linter.py.                                   *)
(***************************************************************************)
DEFAULT_DENY_IMPORTS ==
    {<<"socket">>, <<"requests">>, <<"subprocess">>, <<"multiprocessing">>,
     <<"ftplib">>, <<"paramiko">>, <<"psutil">>}

DANGEROUS_CALLS ==
    {<<Some(<<"os">>), <<"system">>>>,
     <<Some(<<"os">>), <<"popen">>>>,
     <<Some(<<"builtins">>), <<"eval">>>>,
     <<Some(<<"builtins">>), <<"exec">>>>}

(***************************************************************************)
(* State.                                                                  *)
(*   fs          the file system: path -> what reading and parsing gives   *)
(*   args        the parsed command line of ast_linter.py                  *)
(*   pc          position of main(): "idle" (not started), "lint" (the     *)
(*               loop over args.paths), "render", "exit", "done"           *)
(*   idx         index in args.paths of the next file of the loop          *)
(*   findings    main()'s list of findings                                 *)
(*   v           the LintVisitor of the last lint_file call that built one *)
(*   results     history: the value each lint_file call returned           *)
(*   stdout      what main() printed                                       *)
(*   traceback   the exception that left main() uncaught, if any           *)
(*   returncode  the exit status of the linter process, once it ended      *)
(*   pf          preflight_validate.py: its position, inputs and outputs   *)
(***************************************************************************)
VARIABLES fs, args, pc, idx, findings, v, results, stdout, traceback, returncode, pf

vars == <<fs, args, pc, idx, findings, v, results, stdout, traceback, returncode, pf>>

linter_vars == <<pc, idx, findings, v, results, stdout, traceback, returncode>>

(***************************************************************************)
(* Finding and LintVisitor.                                                *)
(***************************************************************************)
Message(text, arg) == [text |-> text, arg |-> arg]

Finding(path, lineno, col, level, code, msg) ==
    [path |-> path, lineno |-> lineno, col |-> col, level |-> level,
     code |-> code, msg |-> msg]

EmptyMap == [k \in {} |-> <<>>]

MapPut(m, k, val) == [x \in (DOMAIN m) \cup {k} |-> IF x = k THEN val ELSE m[x]]

\* dict.get(k) with None when absent
MapGet(m, k) == IF k \in DOMAIN m THEN Some(m[k]) ELSE None

\* mutant: the roots are kept as given on the command line
LintVisitorRootsAsGiven(path, deny_imports, project_root, artifacts_root) ==
    [path |-> path, deny_imports |-> deny_imports,
     project_root |-> project_root,
     artifacts_root |-> artifacts_root,
     findings |-> <<>>, alias_map |-> EmptyMap]

\* mutant: alias_map as a class attribute, shared by every visitor of the run
LintVisitorSharedAliasMap(path, deny_imports, project_root, artifacts_root) ==
    [path |-> path, deny_imports |-> deny_imports,
     project_root |-> Normpath(project_root),
     artifacts_root |-> Normpath(artifacts_root),
     findings |-> <<>>, alias_map |-> IF IsNone(v) THEN EmptyMap ELSE Get(v).alias_map]

LintVisitor(path, deny_imports, project_root, artifacts_root) ==
    [path |-> path, deny_imports |-> deny_imports,
     project_root |-> Normpath(project_root),
     artifacts_root |-> Normpath(artifacts_root),
     findings |-> <<>>, alias_map |-> EmptyMap]

\* mutant: the rules record their findings at level WARN
error_at_warn_level(self, node, code, msg) ==
    [self EXCEPT !.findings =
        Append(@, Finding(self.path, Some(node.lineno), Some(node.col_offset), "WARN", code, msg))]

error(self, node, code, msg) ==
    [self EXCEPT !.findings =
        Append(@, Finding(self.path, Some(node.lineno), Some(node.col_offset), "ERROR", code, msg))]

warn(self, node, code, msg) ==
    [self EXCEPT !.findings =
        Append(@, Finding(self.path, Some(node.lineno), Some(node.col_offset), "WARN", code, msg))]

\* s.split(".")[0] of a non-empty dotted name
TopSegment(dotted) == <<Head(dotted)>>

RECURSIVE resolve_base_without_aliases(_, _)
\* mutant: the base name is taken as the module, the alias map is not read
resolve_base_without_aliases(self, node) ==
    IF node.kind = "Name"
    THEN node.id
    ELSE IF node.kind = "Attribute"
    THEN LET base == resolve_base_without_aliases(self, node.value)
         IN  IF base /= <<>> THEN base \o node.attr ELSE node.attr
    ELSE <<>>

RECURSIVE resolve_base(_, _)
resolve_base(self, node) ==
    IF node.kind = "Name"
    THEN IF node.id \in DOMAIN self.alias_map THEN self.alias_map[node.id] ELSE node.id
    ELSE IF node.kind = "Attribute"
    THEN LET base == resolve_base(self, node.value)
         IN  IF base /= <<>> THEN base \o node.attr ELSE node.attr
    ELSE <<>>

Target(mod, func) == [mod |-> mod, func |-> func]

\* mutant: a bare name is looked up in the alias map before the builtin names
resolve_call_target_alias_first(self, func) ==
    IF func.kind = "Name"
    THEN LET name == func.id
             alias_mod == MapGet(self.alias_map, name)
         IN  IF ~IsNone(alias_mod) /\ Get(alias_mod) /= <<>>
             THEN Target(alias_mod, <<>>)
             ELSE IF name \in {<<"eval">>, <<"exec">>, <<"open">>}
             THEN Target(IF name \in {<<"eval">>, <<"exec">>} THEN Some(<<"builtins">>) ELSE None,
                         name)
             ELSE Target(None, name)
    ELSE IF func.kind = "Attribute"
    THEN Target(Some(resolve_base(self, func.value)), func.attr)
    ELSE Target(None, <<>>)

resolve_call_target(self, func) ==
    IF func.kind = "Name"
    THEN LET name == func.id
             alias_mod == MapGet(self.alias_map, name)
         IN  IF name \in {<<"eval">>, <<"exec">>, <<"open">>}
             THEN Target(IF name \in {<<"eval">>, <<"exec">>} THEN Some(<<"builtins">>) ELSE None,
                         name)
             ELSE IF ~IsNone(alias_mod) /\ Get(alias_mod) /= <<>>
             THEN Target(alias_mod, <<>>)
             ELSE Target(None, name)
    ELSE IF func.kind = "Attribute"
    THEN Target(Some(resolve_base(self, func.value)), func.attr)
    ELSE Target(None, <<>>)

\* generic_visit iterates the node's fields in _fields order
Children(node) ==
    CASE node.kind = "Call" -> <<node.func>> \o node.args \o node.keywords
      [] node.kind \in {"Attribute", "Expr", "Subscript"} -> <<node.value>>
      [] node.kind \in {"FunctionDef", "Module"} -> node.body
      [] OTHER -> <<>>

RECURSIVE import_names_renamed_unchecked(_, _, _)
\* mutant: the deny check is the other branch of `if alias.asname`
import_names_renamed_unchecked(self, node, i) ==
    IF i > Len(node.names) THEN self
    ELSE LET alias == node.names[i]
             mod == TopSegment(alias.name)
             renamed == ~IsNone(alias.asname) /\ Get(alias.asname) /= <<>>
             v1 == IF mod \in self.deny_imports /\ ~renamed
                   THEN error(self, node, "IMP001", Message("Disallowed import: ", mod))
                   ELSE self
             key == IF renamed THEN Get(alias.asname) ELSE mod
             v2 == [v1 EXCEPT !.alias_map = MapPut(@, key, alias.name)]
         IN  import_names_renamed_unchecked(v2, node, i + 1)

RECURSIVE import_names(_, _, _)
\* the loop of visit_Import over node.names, from index i
import_names(self, node, i) ==
    IF i > Len(node.names) THEN self
    ELSE LET alias == node.names[i]
             mod == TopSegment(alias.name)
             v1 == IF mod \in self.deny_imports
                   THEN error(self, node, "IMP001", Message("Disallowed import: ", mod))
                   ELSE self
             key == IF ~IsNone(alias.asname) /\ Get(alias.asname) /= <<>>
                    THEN Get(alias.asname) ELSE mod
             v2 == [v1 EXCEPT !.alias_map = MapPut(@, key, alias.name)]
         IN  import_names(v2, node, i + 1)

RECURSIVE import_from_names(_, _, _)
\* the loop of visit_ImportFrom over node.names, from index i
import_from_names(self, node, i) ==
    IF i > Len(node.names) THEN self
    ELSE LET alias == node.names[i]
             name == IF ~IsNone(alias.asname) /\ Get(alias.asname) /= <<>>
                     THEN Get(alias.asname) ELSE alias.name
             target == IF ~IsNone(node.module) /\ Get(node.module) /= <<>>
                       THEN Get(node.module) ELSE alias.name
         IN  import_from_names([self EXCEPT !.alias_map = MapPut(@, name, target)], node, i + 1)

\* mutant: the message names the normalized path, not the literal
write_path_rule_names_norm(self, node, target) ==
    IF IsNone(target.mod) /\ target.func = <<"open">> /\ Len(node.args) >= 1
    THEN LET path_arg == node.args[1]
             mode == IF Len(node.args) >= 2 /\ node.args[2].kind = "Constant"
                     THEN Some(node.args[2].value) ELSE None
             write_mode == /\ ~IsNone(mode)
                           /\ Get(mode).type = "str"
                           /\ \E c \in {"w", "a", "x"} : Contains(Get(mode).s, c)
         IN  IF path_arg.kind = "Constant" /\ path_arg.value.type = "str" /\ write_mode
             THEN LET path_val == path_arg.value.s
                      norm == Normpath(path_val)
                  IN  IF ~(\/ StartsWith(norm, self.project_root)
                           \/ StartsWith(norm, self.artifacts_root)
                           \/ StartsWith(norm, <<".", "/">>)
                           \/ ~IsAbs(norm))
                      THEN error(self, node, "FS001", Message("Write outside allowed dirs: ", norm))
                      ELSE self
             ELSE self
    ELSE self

\* lines 122-134 of visit_Call: the write-path rule
write_path_rule(self, node, target) ==
    IF IsNone(target.mod) /\ target.func = <<"open">> /\ Len(node.args) >= 1
    THEN LET path_arg == node.args[1]
             mode == IF Len(node.args) >= 2 /\ node.args[2].kind = "Constant"
                     THEN Some(node.args[2].value) ELSE None
             write_mode == /\ ~IsNone(mode)
                           /\ Get(mode).type = "str"
                           /\ \E c \in {"w", "a", "x"} : Contains(Get(mode).s, c)
         IN  IF path_arg.kind = "Constant" /\ path_arg.value.type = "str" /\ write_mode
             THEN LET path_val == path_arg.value.s
                      norm == Normpath(path_val)
                  IN  IF ~(\/ StartsWith(norm, self.project_root)
                           \/ StartsWith(norm, self.artifacts_root)
                           \/ StartsWith(norm, <<".", "/">>)
                           \/ ~IsAbs(norm))
                      THEN error(self, node, "FS001", Message("Write outside allowed dirs: ", path_val))
                      ELSE self
             ELSE self
    ELSE self

\* lines 107-119 of visit_Call: CAL001, CAL002, CAL003
call_rules(self, node, target) ==
    LET truthy == ~IsNone(target.mod) /\ Get(target.mod) /= <<>>
        v1 == IF <<target.mod, target.func>> \in DANGEROUS_CALLS
              THEN error(self, node, "CAL001",
                         Message("Dangerous call: ", Get(target.mod) \o target.func))
              ELSE self
        v2 == IF truthy /\ TopSegment(Get(target.mod)) = <<"subprocess">>
              THEN error(v1, node, "CAL002",
                         Message("Process spawning via 'subprocess' is disallowed", <<>>))
              ELSE v1
        v3 == IF truthy /\ TopSegment(Get(target.mod)) \in {<<"socket">>, <<"requests">>}
              THEN error(v2, node, "CAL003",
                         Message("Network usage via '{}' is disallowed", Get(target.mod)))
              ELSE v2
    IN  v3

RECURSIVE visit(_, _)
RECURSIVE visit_seq(_, _, _)

generic_visit(self, node) == visit_seq(self, Children(node), 1)

visit_Import(self, node) == generic_visit(import_names(self, node, 1), node)

visit_ImportFrom(self, node) ==
    LET v1 == IF ~IsNone(node.module) /\ Get(node.module) /= <<>>
                 /\ TopSegment(Get(node.module)) \in self.deny_imports
              THEN error(self, node, "IMP001",
                         Message("Disallowed import: ", TopSegment(Get(node.module))))
              ELSE self
    IN  generic_visit(import_from_names(v1, node, 1), node)

visit_Call(self, node) ==
    LET target == resolve_call_target(self, node.func)
    IN  generic_visit(write_path_rule(call_rules(self, node, target), node, target), node)

\* NodeVisitor.visit: dispatch on the node's class
visit(self, node) ==
    CASE node.kind = "Import" -> visit_Import(self, node)
      [] node.kind = "ImportFrom" -> visit_ImportFrom(self, node)
      [] node.kind = "Call" -> visit_Call(self, node)
      [] OTHER -> generic_visit(self, node)

\* one visitor object goes through the whole traversal; comparing its path
\* has TLC evaluate the visit of nodes[i] before that of nodes[i + 1]
visit_seq(self, nodes, i) ==
    IF i > Len(nodes) THEN self
    ELSE LET next == visit(self, nodes[i])
         IN  IF next.path = self.path THEN visit_seq(next, nodes, i + 1) ELSE self

(***************************************************************************)
(* lint_file.  A file of the file system is what open/read/ast.parse make  *)
(* of it: status "missing" (open raises OSError), "undecodable" (read      *)
(* raises UnicodeDecodeError), "syntax_error" (ast.parse raises the        *)
(* SyntaxError err) or "ok" (ast.parse returns the tree of body).          *)
(***************************************************************************)
SyntaxErrorOf(lineno, offset, msg) == [lineno |-> lineno, offset |-> offset, msg |-> msg]

NoError == SyntaxErrorOf(None, None, <<>>)

Missing == [status |-> "missing", err |-> NoError, body |-> <<>>]
Undecodable == [status |-> "undecodable", err |-> NoError, body |-> <<>>]
Unparsable(err) == [status |-> "syntax_error", err |-> err, body |-> <<>>]
Source(body) == [status |-> "ok", err |-> NoError, body |-> body]

\* what a call returns: the exception it raised, or its findings and visitor
Raised(exc) == [raised |-> Some(exc), findings |-> <<>>, visitor |-> None]
Returned(fnd, visitor) == [raised |-> None, findings |-> fnd, visitor |-> visitor]

lint_file(path, deny_imports, project_root, artifacts_root) ==
    LET file == fs[path]
    IN  CASE file.status = "missing" -> Raised("FileNotFoundError")
          [] file.status = "undecodable" -> Raised("UnicodeDecodeError")
          [] file.status = "syntax_error" ->
               \* getattr(e, "lineno", 0): the attribute exists on every
               \* SyntaxError, so the default 0 is never used
               Returned(<<Finding(path, file.err.lineno, file.err.offset, "ERROR", "SYN001",
                                  Message("SyntaxError: ", file.err.msg))>>, None)
          [] OTHER ->
               LET v0 == LintVisitor(path, deny_imports, project_root, artifacts_root)
                   v1 == visit(v0, ParseBody(file.body))
               IN  Returned(v1.findings, Some(v1))

(***************************************************************************)
(* main() of ast_linter.py.                                                *)
(***************************************************************************)
to_dict(f) ==
    [file |-> f.path, line |-> f.lineno, col |-> f.col, level |-> f.level,
     code |-> f.code, message |-> f.msg]

\* Finding.__str__: "LEVEL [CODE] path:lineno:col msg"
to_str(f) == <<f.level, f.code, f.path, f.lineno, f.col, f.msg>>

\* mutant: new findings put in front of the list
ExtendAtFront(list, more) == more \o list

\* list.extend(more)
Extend(list, more) == list \o more

\* lines 190-191: one iteration of the loop over args.paths
Main_Lint ==
    /\ pc = "lint"
    /\ idx <= Len(args.paths)
    /\ LET r == lint_file(args.paths[idx], args.deny_imports,
                          args.project_root, args.artifacts_root)
       IN  IF ~IsNone(r.raised)
           THEN \* uncaught: the interpreter prints the traceback and exits 1
                /\ traceback' = r.raised
                /\ returncode' = Some(1)
                /\ pc' = "done"
                /\ UNCHANGED <<idx, findings, v, results>>
           ELSE /\ findings' = Extend(findings, r.findings)
                /\ results' = Append(results, r.findings)
                /\ v' = IF IsNone(r.visitor) THEN v ELSE r.visitor
                /\ idx' = idx + 1
                /\ pc' = IF idx = Len(args.paths) THEN "render" ELSE "lint"
                /\ UNCHANGED <<traceback, returncode>>
    /\ UNCHANGED <<fs, args, stdout, pf>>

\* lines 193-197
Main_Render ==
    /\ pc = "render"
    /\ stdout' = IF args.json
                 THEN <<[i \in 1..Len(findings) |-> to_dict(findings[i])]>>
                 ELSE [i \in 1..Len(findings) |-> to_str(findings[i])]
    /\ pc' = "exit"
    /\ UNCHANGED <<fs, args, idx, findings, v, results, traceback, returncode, pf>>

has_error(fnd) == \E i \in 1..Len(fnd) : fnd[i].level = "ERROR"
has_warn(fnd) == \E i \in 1..Len(fnd) : fnd[i].level = "WARN"

\* mutant: errors fail the run only under --fail-on-warn
ExitStatusNeedsFlag(fnd, fail_on_warn) ==
    IF (has_error(fnd) \/ has_warn(fnd)) /\ fail_on_warn THEN 2 ELSE 0

ExitStatus(fnd, fail_on_warn) ==
    IF has_error(fnd) \/ (fail_on_warn /\ has_warn(fnd)) THEN 2 ELSE 0

\* lines 199-203
Main_Exit ==
    /\ pc = "exit"
    /\ returncode' = Some(ExitStatus(findings, args.fail_on_warn))
    /\ pc' = "done"
    /\ UNCHANGED <<fs, args, idx, findings, v, results, stdout, traceback, pf>>

Next == Main_Lint \/ Main_Render \/ Main_Exit

(***************************************************************************)
(* Inputs of the gate driver: batches of up to MaxFiles paths over a file  *)
(* system of two files, each file one of DriverFiles.                      *)
(***************************************************************************)
MaxFiles == 3

PathNames == {"a.py", "b.py"}

Batches == UNION {[1..n -> PathNames] : n \in 1..MaxFiles}

DefaultProjectRoot == <<"/", "p", "r", "o", "j", "e", "c", "t">>
DefaultArtifactsRoot == <<"/", "a", "r", "t", "i", "f", "a", "c", "t", "s">>

Args(paths, project_root, artifacts_root, deny_imports, json, fail_on_warn) ==
    [paths |-> paths, project_root |-> project_root, artifacts_root |-> artifacts_root,
     deny_imports |-> deny_imports, json |-> json, fail_on_warn |-> fail_on_warn]

\* name.attr(args), a call statement
AttrCall(name, attr, callargs) ==
    ExprNode(CallNode(AttributeNode(NameNode(<<name>>, 0), <<attr>>, 0), callargs, <<>>, 0))

\* sp.run()
StmtSpRun == AttrCall("sp", "run", <<>>)

\* import subprocess as sp
StmtImportSubprocessAsSp == ImportNode(<<Alias(<<"subprocess">>, Some(<<"sp">>))>>)

\* eval(os.system())
StmtEvalOsSystem ==
    ExprNode(CallNode(NameNode(<<"eval">>, 0),
                      <<CallNode(AttributeNode(NameNode(<<"os">>, 5), <<"system">>, 5),
                                 <<>>, <<>>, 5)>>,
                      <<>>, 0))

\* open("/etc", "w")
StmtOpenEtc ==
    ExprNode(CallNode(NameNode(<<"open">>, 0),
                      <<ConstantNode(StrValue(<<"/", "e", "t", "c">>), 5),
                        ConstantNode(StrValue(<<"w">>), 13)>>,
                      <<>>, 0))

\* socket.create_connection()
StmtSocketConnect == AttrCall("socket", "create_connection", <<>>)

UnclosedParen == SyntaxErrorOf(Some(1), Some(1), <<"'(' was never closed">>)
NullBytes == SyntaxErrorOf(None, None, <<"source code string cannot contain null bytes">>)

DriverFiles ==
    {Missing, Undecodable, Unparsable(UnclosedParen), Unparsable(NullBytes),
     Source(<<>>),
     Source(<<StmtSpRun, StmtImportSubprocessAsSp>>),
     Source(<<StmtEvalOsSystem>>),
     Source(<<StmtOpenEtc>>),
     Source(<<StmtImportSubprocessAsSp, StmtSpRun, StmtSocketConnect,
              StmtEvalOsSystem, StmtOpenEtc>>)}

NoPreflight ==
    [pc |-> "none", trp_ok |-> TRUE, srcs |-> <<>>, fail_on_warn |-> FALSE,
     out |-> <<>>, exit_code |-> None]

\* the linter process right after argparse
LinterStarts ==
    /\ pc = "lint"
    /\ idx = 1
    /\ findings = <<>>
    /\ v = None
    /\ results = <<>>
    /\ stdout = <<>>
    /\ traceback = None
    /\ returncode = None

Init ==
    /\ fs \in [PathNames -> DriverFiles]
    /\ \E paths \in Batches, json \in BOOLEAN, fail_on_warn \in BOOLEAN :
          args = Args(paths, DefaultProjectRoot, DefaultArtifactsRoot,
                      DEFAULT_DENY_IMPORTS, json, fail_on_warn)
    /\ LinterStarts
    /\ pf = NoPreflight

Spec == Init /\ [][Next]_vars

(***************************************************************************)
(* Properties of the gate driver.                                          *)
(***************************************************************************)
\* main() returned through sys.exit, every file of the batch analysed
Exited == pc = "done" /\ IsNone(traceback)

AnyLevel(level) == \E i \in 1..Len(findings) : findings[i].level = level

\* C1: once all files are analysed the process exits with code 2 if a finding
\* has level ERROR, or if none has but one has level WARN and --fail-on-warn
\* is set, and with code 0 in every other case; it exits with no other code.
C1_ExitDisposition ==
    Exited =>
        /\ Len(results) = Len(args.paths)
        /\ returncode =
              Some(IF \/ AnyLevel("ERROR")
                      \/ (~AnyLevel("ERROR") /\ AnyLevel("WARN") /\ args.fail_on_warn)
                   THEN 2 ELSE 0)

C1_Witness ==
    /\ Exited
    /\ returncode = Some(2)
    /\ AnyLevel("ERROR")
    /\ ~args.fail_on_warn

\* the file at position i of the batch
FileAt(i) == fs[args.paths[i]]

StripPath(fnd) == [k \in 1..Len(fnd) |-> [fnd[k] EXCEPT !.path = ""]]

\* C6: the findings of a file depend on its content and the configuration
\* only: two files of a run with the same content get the same findings (but
\* for the path they name), whatever was analysed before them, a file that
\* yields SYN001 included.
C6_BatchIndependence ==
    \A i, j \in 1..Len(results) :
        FileAt(i) = FileAt(j) => StripPath(results[i]) = StripPath(results[j])

C6_Witness ==
    \E i, k, j \in 1..Len(results) :
        /\ i < k /\ k < j
        /\ FileAt(i) = FileAt(j)
        /\ FileAt(i).status = "ok"
        /\ FileAt(i).body /= <<>>
        /\ results[j] /= <<>>
        /\ FileAt(k).status = "syntax_error"
        /\ results[k][1].code = "SYN001"

\* the file at position i can be read and decoded
Readable(i) == FileAt(i).status \in {"ok", "syntax_error"}

\* C7: whatever goes wrong reading or parsing one file, every other file of
\* the batch is still analysed and its findings are rendered: the run ends
\* only after all its files are analysed.
C7_FailureIsLocal ==
    pc = "done" =>
        \A i \in 1..Len(args.paths) :
            Readable(i) =>
                /\ i <= Len(results)
                /\ (results[i] = <<>> \/ stdout /= <<>>)

\* C8: an unparsable file gets exactly one finding: ERROR, SYN001, with the
\* parser's description, at the line and column the error reports, and at
\* 0/0 when it reports none (never a missing value).
C8_SyntaxErrorFinding ==
    \A i \in 1..Len(results) :
        FileAt(i).status = "syntax_error" =>
            LET e == FileAt(i).err
                r == results[i]
            IN  /\ Len(r) = 1
                /\ r[1].level = "ERROR"
                /\ r[1].code = "SYN001"
                /\ r[1].msg.arg = e.msg
                /\ r[1].lineno = (IF IsNone(e.lineno) THEN Some(0) ELSE e.lineno)
                /\ r[1].col = (IF IsNone(e.offset) THEN Some(0) ELSE e.offset)

RECURSIVE Concat(_)
Concat(lists) == IF Len(lists) = 0 THEN <<>> ELSE Head(lists) \o Concat(Tail(lists))

RECURSIVE PreOrder(_)
RECURSIVE PreOrderSeq(_, _)
\* the nodes of a tree, a node before its descendants, siblings in order
PreOrder(node) == <<node>> \o PreOrderSeq(Children(node), 1)

PreOrderSeq(nodes, i) ==
    IF i > Len(nodes) THEN <<>> ELSE PreOrder(nodes[i]) \o PreOrderSeq(nodes, i + 1)

\* the places of the nodes a rule reports on, in pre-order
ReportPlaces(tree) ==
    LET nodes == PreOrder(tree)
        at(n) == IF nodes[n].kind \in {"Import", "ImportFrom", "Call"}
                 THEN <<<<Some(nodes[n].lineno), Some(nodes[n].col_offset)>>>> ELSE <<>>
    IN  Concat([n \in 1..Len(nodes) |-> at(n)])

FirstIndex(seq, x) ==
    CHOOSE n \in 1..Len(seq) : seq[n] = x /\ \A m \in 1..(n - 1) : seq[m] /= x

\* the findings of the parsed file at position i follow the pre-order
InDiscoveryOrder(i) ==
    LET places == ReportPlaces(ParseBody(FileAt(i).body))
        r == results[i]
        place(k) == <<r[k].lineno, r[k].col>>
    IN  \A k, l \in 1..Len(r) :
            k < l => FirstIndex(places, place(k)) <= FirstIndex(places, place(l))

\* stdout holds each finding once, in the order of the list
RenderedInOrder ==
    IF args.json
    THEN /\ Len(stdout) = 1
         /\ Len(stdout[1]) = Len(findings)
         /\ \A i \in 1..Len(findings) :
               /\ stdout[1][i].file = findings[i].path
               /\ stdout[1][i].line = findings[i].lineno
               /\ stdout[1][i].col = findings[i].col
               /\ stdout[1][i].code = findings[i].code
               /\ stdout[1][i].message = findings[i].msg
    ELSE /\ Len(stdout) = Len(findings)
         /\ \A i \in 1..Len(findings) :
               stdout[i] = <<findings[i].level, findings[i].code, findings[i].path,
                             findings[i].lineno, findings[i].col, findings[i].msg>>

\* C9: the findings are the per-file findings concatenated in input-file
\* order, each file's in the order the pre-order traversal finds them; they
\* are rendered once each, in that order, in text and in JSON mode, and
\* nothing is rendered before all files are analysed.
C9_OrderOfResult ==
    /\ findings = Concat(results)
    /\ \A i \in 1..Len(results) :
          /\ \A k \in 1..Len(results[i]) : results[i][k].path = args.paths[i]
          /\ FileAt(i).status = "ok" => InDiscoveryOrder(i)
    /\ pc \in {"lint", "render"} => stdout = <<>>
    /\ stdout /= <<>> => Len(results) = Len(args.paths)
    /\ (pc = "exit" \/ Exited) => RenderedInOrder

C9_Witness ==
    /\ Exited
    /\ Len(stdout) >= 3
    /\ \E i, j \in 1..Len(results) :
          /\ i < j
          /\ args.paths[i] /= args.paths[j]
          /\ Len(results[i]) >= 1
          /\ Len(results[j]) >= 2
          /\ results[j][1].lineno = results[j][2].lineno
          /\ results[j][1].col /= results[j][2].col

(***************************************************************************)
(* The import rule on one file: every file of up to MaxImportStmts         *)
(* statements drawn from ImportStmts.                                      *)
(***************************************************************************)
MaxImportStmts == 2

FilesOf(stmts, n) == UNION {[1..k -> stmts] : k \in 0..n}

ImportMods == {<<"socket">>, <<"multiprocessing", "pool">>, <<"os">>}

AsNames == {None, Some(<<"sp">>)}

ImportAliases == {Alias(m, a) : m \in ImportMods, a \in AsNames}

ImportStmts ==
    \* import m [as a]
    {ImportNode(<<x>>) : x \in ImportAliases}
    \* import m, n [as a]
    \cup {ImportNode(<<Alias(m, None), y>>) : m \in ImportMods, y \in ImportAliases}
    \* from m import Pool [as a]
    \cup {ImportFromNode(Some(m), <<Alias(<<"Pool">>, a)>>, 0) : m \in ImportMods, a \in AsNames}
    \* from . import Pool [as a]
    \cup {ImportFromNode(None, <<Alias(<<"Pool">>, a)>>, 1) : a \in AsNames}
    \* def f(): import m
    \cup {FunctionDefNode(<<ImportNode(<<Alias(m, None)>>)>>) : m \in ImportMods}

\* one run of the linter on the single file a.py holding body
OneFile(body, project_root, artifacts_root) ==
    /\ fs = [p \in PathNames |-> IF p = "a.py" THEN Source(body) ELSE Missing]
    /\ args = Args(<<"a.py">>, project_root, artifacts_root, DEFAULT_DENY_IMPORTS, FALSE, FALSE)
    /\ LinterStarts
    /\ pf = NoPreflight

InitImports ==
    \E body \in FilesOf(ImportStmts, MaxImportStmts) :
        OneFile(body, DefaultProjectRoot, DefaultArtifactsRoot)

SpecImports == InitImports /\ [][Next]_vars

RECURSIVE Sum(_)
Sum(ns) == IF Len(ns) = 0 THEN 0 ELSE Head(ns) + Sum(Tail(ns))

\* how many findings of fnd have this code and name this module
CountNaming(fnd, code, mod) ==
    Cardinality({k \in 1..Len(fnd) : fnd[k].code = code /\ fnd[k].msg.arg = mod})

\* how often the statement imports the module whose top segment is mod:
\* once per name of an import statement, once per from-import statement
RECURSIVE ImportsIn(_, _)
ImportsIn(stmt, mod) ==
    CASE stmt.kind = "Import" ->
           Cardinality({k \in 1..Len(stmt.names) : <<stmt.names[k].name[1]>> = mod})
      [] stmt.kind = "ImportFrom" ->
           IF ~IsNone(stmt.module) /\ <<Get(stmt.module)[1]>> = mod THEN 1 ELSE 0
      [] stmt.kind = "FunctionDef" ->
           Sum([k \in 1..Len(stmt.body) |-> ImportsIn(stmt.body[k], mod)])
      [] OTHER -> 0

ImportsOf(body, mod) == Sum([k \in 1..Len(body) |-> ImportsIn(body[k], mod)])

\* some statement of the file imports mod under a new name
RenamedImportOf(body, mod) ==
    \E k \in 1..Len(body) :
        /\ body[k].kind \in {"Import", "ImportFrom"}
        /\ ImportsIn(body[k], mod) = 1
        /\ \E n \in 1..Len(body[k].names) : ~IsNone(body[k].names[n].asname)

\* C2 as claimed: a file that imports a denied module, by import or by
\* from-import, renamed or not, gets exactly one IMP001 naming the module.
C2_ExactlyOneIMP001 ==
    Len(results) = 1 =>
        \A mod \in args.deny_imports :
            ImportsOf(FileAt(1).body, mod) >= 1 =>
                CountNaming(results[1], "IMP001", mod) = 1

\* C2 amended: the file gets one IMP001 ERROR naming the module for each
\* import of it (each name of an import statement, each from-import
\* statement), renamed or not: exactly one when it is imported once, and
\* none for a module the file does not import.
C2_OneIMP001PerImport ==
    Len(results) = 1 =>
        /\ \A mod \in args.deny_imports :
              CountNaming(results[1], "IMP001", mod) = ImportsOf(FileAt(1).body, mod)
        /\ \A k \in 1..Len(results[1]) :
              /\ results[1][k].code = "IMP001"
              /\ results[1][k].level = "ERROR"
              /\ results[1][k].msg.arg \in args.deny_imports

C2_Witness ==
    /\ Len(results) = 1
    /\ ImportsOf(FileAt(1).body, <<"socket">>) = 1
    /\ RenamedImportOf(FileAt(1).body, <<"socket">>)
    /\ ImportsOf(FileAt(1).body, <<"multiprocessing">>) = 2
    /\ CountNaming(results[1], "IMP001", <<"socket">>) = 1
    /\ CountNaming(results[1], "IMP001", <<"multiprocessing">>) = 2

(***************************************************************************)
(* Alias resolution on one file: every file of up to MaxAliasStmts         *)
(* statements drawn from AliasStmts.                                       *)
(***************************************************************************)
MaxAliasStmts == 3

\* import m as a
ImportAs(m, a) == ImportNode(<<Alias(m, Some(<<a>>))>>)

AliasStmts ==
    {ImportAs(<<"subprocess">>, "sp"),
     ImportAs(<<"json">>, "sp"),
     \* import subprocess
     ImportNode(<<Alias(<<"subprocess">>, None)>>),
     \* from json import load as sp
     ImportFromNode(Some(<<"json">>), <<Alias(<<"load">>, Some(<<"sp">>))>>, 0),
     \* sp.Popen(), sp.run(), subprocess.Popen()
     AttrCall("sp", "Popen", <<>>),
     AttrCall("sp", "run", <<>>),
     AttrCall("subprocess", "Popen", <<>>),
     \* def f(): sp.Popen()
     FunctionDefNode(<<AttrCall("sp", "Popen", <<>>)>>),
     \* def f(): import subprocess as sp
     FunctionDefNode(<<ImportAs(<<"subprocess">>, "sp")>>)}

InitAlias ==
    \E body \in FilesOf(AliasStmts, MaxAliasStmts) :
        OneFile(body, DefaultProjectRoot, DefaultArtifactsRoot)

SpecAlias == InitAlias /\ [][Next]_vars

\* the local name an alias of an import statement binds
BoundName(stmt, n) ==
    IF ~IsNone(stmt.names[n].asname) THEN Get(stmt.names[n].asname)
    ELSE IF stmt.kind = "Import" THEN <<stmt.names[n].name[1]>>
    ELSE stmt.names[n].name

Binds(node, name) ==
    /\ node.kind \in {"Import", "ImportFrom"}
    /\ \E n \in 1..Len(node.names) : BoundName(node, n) = name

\* `import subprocess as name` is the last binding of name by the statement
BindsSubprocessAs(node, name) ==
    /\ node.kind = "Import"
    /\ \E n \in 1..Len(node.names) :
          /\ node.names[n].asname = Some(name)
          /\ node.names[n].name = <<"subprocess">>
          /\ \A m \in (n + 1)..Len(node.names) : BoundName(node, m) /= name

\* node is a call name.attr(...)
AttrCallOn(node, name) ==
    /\ node.kind = "Call"
    /\ node.func.kind = "Attribute"
    /\ node.func.value.kind = "Name"
    /\ node.func.value.id = name

CountAt(fnd, code, node) ==
    Cardinality({k \in 1..Len(fnd) :
                    /\ fnd[k].code = code
                    /\ fnd[k].lineno = Some(node.lineno)
                    /\ fnd[k].col = Some(node.col_offset)})

LocalNames == {<<"sp">>, <<"subprocess">>}

\* C3 as claimed: if the file binds alias by `import subprocess as alias`
\* anywhere, every call alias.X(...) of the file gets CAL002, whatever else
\* the file holds and wherever the call stands.
C3_AliasNeverEvades ==
    Len(results) = 1 =>
        LET nodes == PreOrder(ParseBody(FileAt(1).body))
        IN  \A alias \in LocalNames :
                (\E b \in 1..Len(nodes) : BindsSubprocessAs(nodes[b], alias)) =>
                    \A c \in 1..Len(nodes) :
                        AttrCallOn(nodes[c], alias) =>
                            CountAt(results[1], "CAL002", nodes[c]) >= 1

\* in the pre-order of the tree, the last import before position c that
\* binds alias is `import subprocess as alias`
LastBindingIsSubprocess(nodes, c, alias) ==
    \E b \in 1..(c - 1) :
        /\ BindsSubprocessAs(nodes[b], alias)
        /\ \A x \in (b + 1)..(c - 1) : ~Binds(nodes[x], alias)

\* C3 amended: a call alias.X(...) gets CAL002 (once) when, in source order,
\* the last import statement before the call that binds alias is
\* `import subprocess as alias`: a call that precedes the import, or
\* follows a later import that rebinds alias, is resolved by the table as
\* it is then (last write wins) and may get none.
C3_AliasResolvedInOrder ==
    Len(results) = 1 =>
        LET nodes == PreOrder(ParseBody(FileAt(1).body))
        IN  \A alias \in LocalNames :
                \A c \in 1..Len(nodes) :
                    (AttrCallOn(nodes[c], alias) /\ LastBindingIsSubprocess(nodes, c, alias)) =>
                        CountAt(results[1], "CAL002", nodes[c]) = 1

C3_Witness ==
    /\ Len(results) = 1
    /\ LET nodes == PreOrder(ParseBody(FileAt(1).body))
       IN  \E b, x, c \in 1..Len(nodes) :
               /\ b < x /\ x < c
               /\ Binds(nodes[b], <<"sp">>) /\ ~BindsSubprocessAs(nodes[b], <<"sp">>)
               /\ BindsSubprocessAs(nodes[x], <<"sp">>)
               /\ AttrCallOn(nodes[c], <<"sp">>)
               /\ nodes[c].func.attr = <<"Popen">>
               /\ LastBindingIsSubprocess(nodes, c, <<"sp">>)
               /\ CountAt(results[1], "CAL002", nodes[c]) = 1
               /\ CountNaming(results[1], "IMP001", <<"subprocess">>) = 1

(***************************************************************************)
(* The write-path rule on one call: a file holding one call of open (or    *)
(* io.open) whose path is a literal of up to MaxPathLen characters of      *)
(* PathChars, a literal that is no string, or a variable, and whose mode   *)
(* is missing, a positional literal, a variable, or a keyword.  The roots  *)
(* are --project-root /p and --artifacts-root /a/.                         *)
(***************************************************************************)
MaxPathLen == 4

PathChars == {"/", ".", "p", "a", "e"}

Paths == UNION {[1..n -> PathChars] : n \in 0..MaxPathLen}

ShortProjectRoot == <<"/", "p">>
ShortArtifactsRoot == <<"/", "a", "/">>

Modes == {<<"r">>, <<"w">>, <<"a", "b">>, <<"x">>, <<"r", "+">>}

PathArgs ==
    {ConstantNode(StrValue(p), 5) : p \in Paths}
    \cup {ConstantNode(IntValue, 5), NameNode(<<"path">>, 5)}

\* the positional arguments after the path, and the keyword arguments
ModeArgs ==
    {[args |-> <<ConstantNode(StrValue(m), 9)>>, keywords |-> <<>>] : m \in Modes}
    \cup {[args |-> <<>>, keywords |-> <<>>],
          [args |-> <<NameNode(<<"mode">>, 9)>>, keywords |-> <<>>],
          [args |-> <<ConstantNode(IntValue, 9)>>, keywords |-> <<>>],
          [args |-> <<>>, keywords |-> <<ConstantNode(StrValue(<<"w">>), 9)>>],
          \* open(path, "w", 1)
          [args |-> <<ConstantNode(StrValue(<<"w">>), 9), ConstantNode(IntValue, 12)>>,
           keywords |-> <<>>]}

OpenCallees ==
    {NameNode(<<"open">>, 0), AttributeNode(NameNode(<<"io">>, 0), <<"open">>, 0)}

OpenStmts ==
    {ExprNode(CallNode(f, <<p>> \o m.args, m.keywords, 0)) :
        f \in OpenCallees, p \in PathArgs, m \in ModeArgs}
    \* open()
    \cup {ExprNode(CallNode(NameNode(<<"open">>, 0), <<>>, <<>>, 0))}

InitOpen ==
    \E stmt \in OpenStmts : OneFile(<<stmt>>, ShortProjectRoot, ShortArtifactsRoot)

SpecOpen == InitOpen /\ [][Next]_vars

\* the one call of the file, as parsed
TheCall == ParseBody(FileAt(1).body).body[1].value

IsStrLiteral(node) == node.kind = "Constant" /\ node.value.type = "str"

IsWriteMode(node) ==
    IsStrLiteral(node) /\ (Contains(node.value.s, "w") \/ Contains(node.value.s, "a")
                            \/ Contains(node.value.s, "x"))

BuiltinOpen(call) == call.func.kind = "Name" /\ call.func.id = <<"open">>

CountFS001(fnd) == Cardinality({k \in 1..Len(fnd) : fnd[k].code = "FS001"})

FS001Names(fnd, path) ==
    \A k \in 1..Len(fnd) :
        fnd[k].code = "FS001" => (fnd[k].msg.arg = path /\ fnd[k].level = "ERROR")

\* C4 as claimed: open(path, mode) with a literal write mode and a literal
\* path that is absolute and starts with neither root nor "./" gets exactly
\* one FS001 naming the path, the path being taken as written.
C4_FS001ForPathAsWritten ==
    Len(results) = 1 =>
        LET call == TheCall
        IN  (/\ BuiltinOpen(call)
             /\ Len(call.args) = 2
             /\ IsWriteMode(call.args[2])
             /\ IsStrLiteral(call.args[1])
             /\ IsAbs(call.args[1].value.s)
             /\ ~StartsWith(call.args[1].value.s, Normpath(args.project_root))
             /\ ~StartsWith(call.args[1].value.s, Normpath(args.artifacts_root))
             /\ ~StartsWith(call.args[1].value.s, <<".", "/">>))
            => (CountFS001(results[1]) = 1 /\ FS001Names(results[1], call.args[1].value.s))

\* path, lexically normalized, is absolute and under neither normalized root
OutsideRoots(path) ==
    LET norm == Normpath(path)
    IN  /\ IsAbs(norm)
        /\ ~StartsWith(norm, Normpath(args.project_root))
        /\ ~StartsWith(norm, Normpath(args.artifacts_root))

\* C4 amended: open(path, mode) with a literal write mode and a literal path
\* whose lexically normalized form is absolute and starts with neither the
\* normalized project root nor the normalized artifacts root gets exactly
\* one FS001 ERROR, and its message names the literal path as written.
C4_FS001ForNormalizedPath ==
    Len(results) = 1 =>
        LET call == TheCall
        IN  (/\ BuiltinOpen(call)
             /\ Len(call.args) = 2
             /\ IsWriteMode(call.args[2])
             /\ IsStrLiteral(call.args[1])
             /\ OutsideRoots(call.args[1].value.s))
            => (CountFS001(results[1]) = 1 /\ FS001Names(results[1], call.args[1].value.s))

\* open("/e/.", "w"): the literal differs from its normalized form
C4_Witness ==
    /\ Len(results) = 1
    /\ BuiltinOpen(TheCall)
    /\ Len(TheCall.args) = 2
    /\ TheCall.args[2] = AtLine(ConstantNode(StrValue(<<"w">>), 9), 1)
    /\ IsStrLiteral(TheCall.args[1])
    /\ TheCall.args[1].value.s = <<"/", "e", "/", ".">>
    /\ CountFS001(results[1]) = 1
    /\ results[1][1].msg.arg = <<"/", "e", "/", ".">>

\* C5: a call of builtin open gets FS001 if and only if its first positional
\* argument is a string literal, its second positional argument is a string
\* literal containing w, a or x, and the normalized path is absolute and
\* under neither normalized root; in every other case there is no FS001.
C5_FS001OnlyForLiteralWrites ==
    Len(results) = 1 =>
        LET call == TheCall
            fires == /\ BuiltinOpen(call)
                     /\ Len(call.args) >= 2
                     /\ IsStrLiteral(call.args[1])
                     /\ IsWriteMode(call.args[2])
                     /\ OutsideRoots(call.args[1].value.s)
        IN  CountFS001(results[1]) = (IF fires THEN 1 ELSE 0)

\* open("/a", "w"), the artifacts root itself (given as /a/): no FS001
C5_Witness ==
    /\ Len(results) = 1
    /\ BuiltinOpen(TheCall)
    /\ Len(TheCall.args) = 2
    /\ IsWriteMode(TheCall.args[2])
    /\ IsStrLiteral(TheCall.args[1])
    /\ TheCall.args[1].value.s = <<"/", "a">>
    /\ results[1] = <<>>

(***************************************************************************)
(* scripts/preflight_validate.py.  pf.pc is the script's position:         *)
(* "validate" (validate_trp), "dispatch" (lines 51-56), "run_linter"       *)
(* (blocked in subprocess.run), "exit" (line 57), "done"; "none" when the  *)
(* linter runs on its own.  The linter is the process modelled above.      *)
(***************************************************************************)
Signals == {9, 15}

\* the exit status the parent sees for sys.exit(n)
SysExit(n) == n % 256

\* mutant: only a positive return code counts as a failure
linter_failed_if_positive(rc) == rc > 0

\* line 36: res.returncode != 0
linter_failed(rc) == rc /= 0

\* validate_trp, lines 7-19
Pf_Validate ==
    /\ pf.pc = "validate"
    /\ pf' = IF pf.trp_ok
             THEN [pf EXCEPT !.out = Append(@, "Schema validation: PASS"), !.pc = "dispatch"]
             ELSE [pf EXCEPT !.out = Append(@, "Schema validation: FAIL"),
                             !.exit_code = Some(2), !.pc = "done"]
    /\ UNCHANGED <<fs, args>>
    /\ UNCHANGED linter_vars

\* lines 51-56, and run_linter up to the start of the subprocess
Pf_Dispatch ==
    /\ pf.pc = "dispatch"
    /\ IF pf.srcs /= <<>>
       THEN /\ args' = Args(pf.srcs, DefaultProjectRoot, DefaultArtifactsRoot,
                            DEFAULT_DENY_IMPORTS, FALSE, pf.fail_on_warn)
            /\ pc' = "lint"
            /\ pf' = [pf EXCEPT !.pc = "run_linter"]
       ELSE /\ pf' = [pf EXCEPT !.out = Append(@, "No source_files found in TRP; skipping linter."),
                                !.pc = "exit"]
            /\ UNCHANGED <<args, pc>>
    /\ UNCHANGED <<fs, idx, findings, v, results, stdout, traceback, returncode>>

\* run_linter, lines 35-39: subprocess.run returns
Pf_LinterReturned ==
    /\ pf.pc = "run_linter"
    /\ pc = "done"
    /\ pf' = IF linter_failed(Get(returncode))
             THEN [pf EXCEPT !.out = Append(@, "AST linter: FAIL"),
                             !.exit_code = Some(SysExit(Get(returncode))), !.pc = "done"]
             ELSE [pf EXCEPT !.out = Append(@, "AST linter: PASS"), !.pc = "exit"]
    /\ UNCHANGED <<fs, args>>
    /\ UNCHANGED linter_vars

\* line 57
Pf_Exit ==
    /\ pf.pc = "exit"
    /\ pf' = [pf EXCEPT !.exit_code = Some(SysExit(0)), !.pc = "done"]
    /\ UNCHANGED <<fs, args>>
    /\ UNCHANGED linter_vars

\* the operating system ends the linter with a signal: subprocess.run
\* reports the negated signal number as the return code
Linter_Killed ==
    /\ pf.pc = "run_linter"
    /\ pc \in {"lint", "render", "exit"}
    /\ \E sig \in Signals : returncode' = Some(0 - sig)
    /\ pc' = "done"
    /\ UNCHANGED <<fs, args, idx, findings, v, results, stdout, traceback, pf>>

NextPreflight ==
    \/ Pf_Validate
    \/ Pf_Dispatch
    \/ Pf_LinterReturned
    \/ Pf_Exit
    \/ Linter_Killed
    \/ Main_Lint
    \/ Main_Render
    \/ Main_Exit

PreflightFiles ==
    {Missing, Unparsable(UnclosedParen), Source(<<>>), Source(<<StmtEvalOsSystem>>)}

InitPreflight ==
    /\ fs \in [PathNames -> PreflightFiles]
    /\ \E trp_ok \in BOOLEAN, srcs \in {<<>>} \cup Batches, fail_on_warn \in BOOLEAN :
          pf = [pc |-> "validate", trp_ok |-> trp_ok, srcs |-> srcs,
                fail_on_warn |-> fail_on_warn, out |-> <<>>, exit_code |-> None]
    /\ args = Args(<<>>, DefaultProjectRoot, DefaultArtifactsRoot, DEFAULT_DENY_IMPORTS,
                   FALSE, FALSE)
    /\ pc = "idle"
    /\ idx = 1
    /\ findings = <<>>
    /\ v = None
    /\ results = <<>>
    /\ stdout = <<>>
    /\ traceback = None
    /\ returncode = None

SpecPreflight == InitPreflight /\ [][NextPreflight]_vars

Printed(line) == \E i \in 1..Len(pf.out) : pf.out[i] = line

\* C10: the linter is started only after the schema validation passed; with
\* no source files it is not started and preflight exits 0; when it is
\* started and returns a non-zero code, preflight exits non-zero and never
\* prints PASS for it; preflight exits 0 only when the schema passed and the
\* linter was skipped or returned 0.
C10_PreflightOrchestration ==
    /\ pc /= "idle" =>
          (pf.trp_ok /\ Len(pf.out) >= 1 /\ pf.out[1] = "Schema validation: PASS")
    /\ pf.srcs = <<>> => pc = "idle"
    /\ (pf.pc = "done" /\ pf.trp_ok /\ pf.srcs = <<>>) => pf.exit_code = Some(0)
    /\ (pf.pc \in {"exit", "done"} /\ pc = "done" /\ returncode /= Some(0)) =>
          /\ pf.pc = "done"
          /\ ~IsNone(pf.exit_code)
          /\ Get(pf.exit_code) \in 1..255
          /\ ~Printed("AST linter: PASS")
          /\ Printed("AST linter: FAIL")
    /\ pf.exit_code = Some(0) =>
          /\ pf.trp_ok
          /\ (pc = "idle" \/ (pc = "done" /\ returncode = Some(0)))
    /\ Printed("AST linter: PASS") => (pc = "done" /\ returncode = Some(0))

C10_Witness ==
    /\ pf.pc = "done"
    /\ pc = "done"
    /\ returncode = Some(2)
    /\ Len(results) >= 2
    /\ pf.exit_code = Some(2)
    /\ pf.out = <<"Schema validation: PASS", "AST linter: FAIL">>

(***************************************************************************)
(* The OS command-execution calls on one file: every file of up to         *)
(* MaxOsStmts statements drawn from OsStmts.                               *)
(***************************************************************************)
MaxOsStmts == 3

OsStmts ==
    {\* import os, import os as o, import os.path, import json as o
     ImportNode(<<Alias(<<"os">>, None)>>),
     ImportAs(<<"os">>, "o"),
     ImportNode(<<Alias(<<"os", "path">>, None)>>),
     ImportAs(<<"json">>, "o"),
     \* os.system(), os.popen(), o.system(), o.popen()
     AttrCall("os", "system", <<>>),
     AttrCall("os", "popen", <<>>),
     AttrCall("o", "system", <<>>),
     AttrCall("o", "popen", <<>>),
     \* def f(): o.system()
     FunctionDefNode(<<AttrCall("o", "system", <<>>)>>)}

InitOs ==
    \E body \in FilesOf(OsStmts, MaxOsStmts) :
        OneFile(body, DefaultProjectRoot, DefaultArtifactsRoot)

SpecOs == InitOs /\ [][Next]_vars

\* the import statement binds name to the module os: `import os` or
\* `import os.path` for the name os, `import os as name` for any name
BindsOsAs(node, name) ==
    /\ node.kind = "Import"
    /\ \E n \in 1..Len(node.names) :
          /\ BoundName(node, n) = name
          /\ \/ node.names[n].asname = Some(name) /\ node.names[n].name = <<"os">>
             \/ IsNone(node.names[n].asname) /\ node.names[n].name[1] = "os"
          /\ \A m \in (n + 1)..Len(node.names) : BoundName(node, m) /= name

\* at position c of the pre-order, name refers to the module os: it is os
\* and no import before c binds it, or the last import before c that binds
\* it binds it to os
RefersToOs(nodes, c, name) ==
    \/ name = <<"os">> /\ \A b \in 1..(c - 1) : ~Binds(nodes[b], name)
    \/ \E b \in 1..(c - 1) :
          /\ BindsOsAs(nodes[b], name)
          /\ \A x \in (b + 1)..(c - 1) : ~Binds(nodes[x], name)

CountAtNaming(fnd, code, node, arg) ==
    Cardinality({k \in 1..Len(fnd) :
                    /\ fnd[k].code = code
                    /\ fnd[k].level = "ERROR"
                    /\ fnd[k].lineno = Some(node.lineno)
                    /\ fnd[k].col = Some(node.col_offset)
                    /\ fnd[k].msg.arg = arg})

OsNames == {<<"os">>, <<"o">>}

\* C11: a call N.system(...) or N.popen(...) where N refers to the module os
\* (used directly, or bound by import os, import os as N or import os.path)
\* gets a CAL001 ERROR naming os.system or os.popen, after any preceding
\* imports that leave N referring to os.
C11_OsCallsCaught ==
    Len(results) = 1 =>
        LET nodes == PreOrder(ParseBody(FileAt(1).body))
        IN  \A name \in OsNames :
                \A c \in 1..Len(nodes) :
                    (/\ AttrCallOn(nodes[c], name)
                     /\ nodes[c].func.attr \in {<<"system">>, <<"popen">>}
                     /\ RefersToOs(nodes, c, name))
                    => CountAtNaming(results[1], "CAL001", nodes[c],
                                     <<"os">> \o nodes[c].func.attr) = 1

(***************************************************************************)
(* The call-target resolver on one file: up to MaxResolverImports imports  *)
(* drawn from ResolverImports, followed by one call of a callee drawn from *)
(* Callees.                                                                *)
(***************************************************************************)
MaxResolverImports == 2

ResolverImports ==
    {\* import subprocess as sp / open / eval, import json as sp / open / exec
     ImportAs(<<"subprocess">>, "sp"), ImportAs(<<"subprocess">>, "open"),
     ImportAs(<<"subprocess">>, "eval"),
     ImportAs(<<"json">>, "sp"), ImportAs(<<"json">>, "open"),
     ImportAs(<<"json">>, "exec"),
     \* import socket as sp, import os as sp, import os.path
     ImportAs(<<"socket">>, "sp"), ImportAs(<<"os">>, "sp"),
     ImportNode(<<Alias(<<"os", "path">>, None)>>),
     \* from os import system as sp, from . import sp
     ImportFromNode(Some(<<"os">>), <<Alias(<<"system">>, Some(<<"sp">>))>>, 0),
     ImportFromNode(None, <<Alias(<<"sp">>, None)>>, 1)}

Callees ==
    {\* eval, exec, open, sp, os, f
     NameNode(<<"eval">>, 0), NameNode(<<"exec">>, 0), NameNode(<<"open">>, 0),
     NameNode(<<"sp">>, 0), NameNode(<<"os">>, 0), NameNode(<<"f">>, 0),
     \* sp.Popen, sp.system, sp.eval, os.path.join
     AttributeNode(NameNode(<<"sp">>, 0), <<"Popen">>, 0),
     AttributeNode(NameNode(<<"sp">>, 0), <<"system">>, 0),
     AttributeNode(NameNode(<<"sp">>, 0), <<"eval">>, 0),
     AttributeNode(AttributeNode(NameNode(<<"os">>, 0), <<"path">>, 0), <<"join">>, 0),
     \* sp[0].run, f().system
     AttributeNode(SubscriptNode(NameNode(<<"sp">>, 0), 0), <<"run">>, 0),
     AttributeNode(CallNode(NameNode(<<"f">>, 0), <<>>, <<>>, 0), <<"system">>, 0)}

\* (), ("/e", "w")
CalleeArgs ==
    {<<>>, <<ConstantNode(StrValue(<<"/", "e">>), 3), ConstantNode(StrValue(<<"w">>), 9)>>}

InitResolver ==
    \E imports \in FilesOf(ResolverImports, MaxResolverImports) :
        \E callee \in Callees :
            \E callargs \in CalleeArgs :
                OneFile(imports \o <<ExprNode(CallNode(callee, callargs, <<>>, 0))>>,
                        DefaultProjectRoot, DefaultArtifactsRoot)

SpecResolver == InitResolver /\ [][Next]_vars

\* the call that ends the file
ResolverCall == LET body == ParseBody(FileAt(1).body).body IN body[Len(body)].value

Max(S) == CHOOSE x \in S : \A y \in S : y <= x

\* the module an import statement records for the n-th name it binds
RecordedModule(stmt, n) ==
    IF stmt.kind = "ImportFrom" /\ ~IsNone(stmt.module) THEN Get(stmt.module)
    ELSE stmt.names[n].name

\* the module recorded by the last binding of name among the statements
\* that precede the call, None when nothing binds it
LatestBinding(name) ==
    LET body == FileAt(1).body
        bs == {b \in 1..(Len(body) - 1) : Binds(body[b], name)}
    IN  IF bs = {} THEN None
        ELSE LET stmt == body[Max(bs)]
                 n == Max({k \in 1..Len(stmt.names) : BoundName(stmt, k) = name})
             IN  Some(RecordedModule(stmt, n))

RECURSIVE IsDotted(_)
\* a name, or attributes of a name: a.b.c
IsDotted(node) ==
    \/ node.kind = "Name"
    \/ node.kind = "Attribute" /\ IsDotted(node.value)

RECURSIVE DottedHead(_)
DottedHead(node) == IF node.kind = "Name" THEN node.id ELSE DottedHead(node.value)

RECURSIVE DottedRest(_)
DottedRest(node) ==
    IF node.kind = "Name" THEN <<>> ELSE DottedRest(node.value) \o node.attr

\* the dotted base: its first name replaced by what it was last bound to
ExpectedBase(node) ==
    LET bound == LatestBinding(DottedHead(node))
    IN  (IF IsNone(bound) THEN DottedHead(node) ELSE Get(bound)) \o DottedRest(node)

ExpectedTarget(func) ==
    IF func.kind = "Name"
    THEN CASE func.id \in {<<"eval">>, <<"exec">>} -> Target(Some(<<"builtins">>), func.id)
           [] func.id = <<"open">> -> Target(None, func.id)
           [] OTHER -> IF IsNone(LatestBinding(func.id))
                       THEN Target(None, func.id)
                       ELSE Target(LatestBinding(func.id), <<>>)
    ELSE IF IsDotted(func.value)
    THEN Target(Some(ExpectedBase(func.value)), func.attr)
    ELSE Target(Some(<<>>), func.attr)

\* the codes of the findings reported at the position of node
CodesAt(fnd, node) ==
    {fnd[k].code : k \in {j \in 1..Len(fnd) : /\ fnd[j].lineno = Some(node.lineno)
                                              /\ fnd[j].col = Some(node.col_offset)}}

\* the module-level rules that apply to a module
ModuleRules(mod) ==
    (IF TopSegment(mod) = <<"subprocess">> THEN {"CAL002"} ELSE {})
    \cup (IF TopSegment(mod) \in {<<"socket">>, <<"requests">>} THEN {"CAL003"} ELSE {})

\* C12: on a bare-name callee the resolver returns (builtins, name) for eval
\* and exec and (absent, open) for open even when the alias table binds the
\* name; otherwise (aliased module, "") for a name in the alias table, to which
\* CAL002/CAL003 apply and CAL001 never, and otherwise (absent, name) with no
\* call rule firing. On an attribute callee X.Y it returns (resolved dotted
\* base of X, Y), a bare-name base taken from its latest binding, and an
\* empty module on which no rule fires when X is a call or a subscript.
C12_CallTargetResolver ==
    Len(results) = 1 =>
        LET call == ResolverCall
            func == call.func
            target == resolve_call_target(Get(v), func)
            codes == CodesAt(results[1], call)
        IN  /\ target = ExpectedTarget(func)
            /\ func.kind = "Name" =>
                 CASE func.id \in {<<"eval">>, <<"exec">>} ->
                        /\ codes = {"CAL001"}
                        /\ CountAtNaming(results[1], "CAL001", call,
                                         <<"builtins">> \o func.id) = 1
                   [] func.id = <<"open">> ->
                        codes = IF call.args = <<>> THEN {} ELSE {"FS001"}
                   [] OTHER ->
                        IF IsNone(LatestBinding(func.id))
                        THEN codes = {}
                        ELSE codes = ModuleRules(Get(LatestBinding(func.id)))
            /\ (func.kind = "Attribute" /\ ~IsDotted(func.value)) =>
                 /\ target.mod = Some(<<>>)
                 /\ codes = {}

\* import ... as open, then open("/e", "w"): still the builtin open
C12_Witness ==
    /\ Len(results) = 1
    /\ BuiltinOpen(ResolverCall)
    /\ <<"open">> \in DOMAIN Get(v).alias_map
    /\ resolve_call_target(Get(v), ResolverCall.func) = Target(None, <<"open">>)
    /\ CodesAt(results[1], ResolverCall) = {"FS001"}

\* the normalized path is the directory root itself or lies inside it
InsideRoot(norm, root) ==
    \/ norm = root
    \/ StartsWith(norm, IF root = <<"/">> THEN root ELSE root \o <<"/">>)

\* C13: an open for writing of a literal absolute path gets no FS001 only if
\* the normalized path is the project root or the artifacts root or lies
\* inside one of them; every absolute literal target outside both, a sibling
\* directory whose name begins with a root's name and an escape through ..
\* included, gets FS001.
C13_FS001OutsideBothRoots ==
    Len(results) = 1 =>
        LET call == TheCall
        IN  (/\ BuiltinOpen(call)
             /\ Len(call.args) = 2
             /\ IsWriteMode(call.args[2])
             /\ IsStrLiteral(call.args[1])
             /\ IsAbs(Normpath(call.args[1].value.s))
             /\ ~InsideRoot(Normpath(call.args[1].value.s), Normpath(args.project_root))
             /\ ~InsideRoot(Normpath(call.args[1].value.s), Normpath(args.artifacts_root)))
            => CountFS001(results[1]) = 1

Codes == {"SYN001", "IMP001", "CAL001", "CAL002", "CAL003", "FS001"}

=============================================================================
